---- MODULE Spec2Model ----
(***************************************************************************)
(* Model of dlp/snippets/Inspect/inspect_image_listed_infotypes.py: the    *)
(* command-line entry point and inspect_image_file_listed_infotypes, one   *)
(* action per statement group of the function.  Text is modelled with TLA+ *)
(* strings; standard output is the sequence of newline-terminated lines    *)
(* written so far.  Field values of a finding are single-line texts.       *)
(***************************************************************************)
EXTENDS Integers, Sequences, FiniteSets, TLC

VARIABLES pc, argv, project, filename, info_types, include_quote,
          inspect_config, byte_item, parent, sent, response, idx, stdout, err

vars == <<pc, argv, project, filename, info_types, include_quote,
          inspect_config, byte_item, parent, sent, response, idx, stdout, err>>

(* ----------------------------- bounds ---------------------------------- *)

MaxInfoTypes == 2
MaxFindings == 2

(* ------------------------- Python values ------------------------------- *)

\* None, a bool or a str, as one record shape.
PyNone == [kind |-> "none", b |-> FALSE, s |-> ""]
PyBool(b) == [kind |-> "bool", b |-> b, s |-> ""]
PyStr(s) == [kind |-> "str", b |-> FALSE, s |-> s]

\* None or a list of str.
PyNoneList == [kind |-> "none", items |-> <<>>]
PyList(items) == [kind |-> "list", items |-> items]

\* Variant: the test `include_quote is not None` instead of the truth value.
TruthyUnlessNone(v) == v.kind # "none"

\* Truth value of `if include_quote:`.
Truthy(v) ==
    CASE v.kind = "none" -> FALSE
      [] v.kind = "bool" -> v.b
      [] v.kind = "str" -> v.s # ""

\* Text of a value interpolated in an f-string.
PyFormat(v) ==
    CASE v.kind = "none" -> "None"
      [] v.kind = "bool" -> (IF v.b THEN "True" ELSE "False")
      [] v.kind = "str" -> v.s

(* ------------------------- input universes ----------------------------- *)

InfoTypeNames == {"EMAIL_ADDRESS", "PHONE_NUMBER"}
Quotes == {"", "a@b.com"}
Likelihoods == {"LIKELY", "POSSIBLE"}
ExistingFiles == {"img.png"}
FileNames == {"img.png", "missing.png"}
FileData(name) == IF name = "img.png" THEN <<137, 80, 78, 71>> ELSE <<>>

SeqsUpTo(S, n) == UNION {[1..k -> S] : k \in 0..n}

Findings == [info_type : [name : InfoTypeNames], quote : Quotes,
             likelihood : Likelihoods]

\* Command lines: an option that is not given is None.
CliArgvs ==
    [cli : {TRUE},
     project : {PyNone, PyStr("my-project")},
     filename : {PyNone} \cup {PyStr(f) : f \in FileNames},
     info_types : {PyNoneList} \cup
                  {PyList(l) : l \in SeqsUpTo(InfoTypeNames, MaxInfoTypes)},
     include_quote : {PyNone, PyStr(""), PyStr("False")}]

NoArgv == [cli |-> FALSE, project |-> PyNone, filename |-> PyNone,
           info_types |-> PyNoneList, include_quote |-> PyNone]

NoConfig == [info_types |-> <<>>, include_quote |-> PyNone]
NoByteItem == [type_ |-> "", data |-> <<>>]
NoResponse == [received |-> FALSE, findings |-> <<>>]

(* ----------------------------- Init ------------------------------------ *)

\* The program started from the command line, before parser.parse_args().
InitCli ==
    /\ pc = "main"
    /\ argv \in CliArgvs
    /\ project = PyNone
    /\ filename = PyNone
    /\ info_types = PyNoneList
    /\ include_quote = PyNone

\* The function called directly with arguments of its annotated types.
InitCall ==
    /\ pc = "client"
    /\ argv = NoArgv
    /\ project = PyStr("my-project")
    /\ filename \in {PyStr(f) : f \in FileNames}
    /\ info_types \in {PyList(l) : l \in SeqsUpTo(InfoTypeNames, MaxInfoTypes)}
    /\ include_quote \in {PyBool(TRUE), PyBool(FALSE)}

Init ==
    /\ InitCli \/ InitCall
    /\ inspect_config = NoConfig
    /\ byte_item = NoByteItem
    /\ parent = ""
    /\ sent = <<>>
    /\ response = NoResponse
    /\ idx = 0
    /\ stdout = <<>>
    /\ err = ""

(* ---------------------------- helpers ---------------------------------- *)

\* print(s): s and the newline print adds; s = text \o "\n" is two lines.
print(out, lines) == out \o lines

\* raise: the invocation ends with the error.
Raise(e) ==
    /\ pc' = "exit"
    /\ err' = e

\* Variant: the labels deduplicated (first occurrences kept) before mapping.
RECURSIVE Dedup(_)
Dedup(items) ==
    IF items = <<>> THEN <<>>
    ELSE LET front == Dedup(SubSeq(items, 1, Len(items) - 1))
             last == items[Len(items)]
         IN IF \E k \in 1..Len(front) : front[k] = last
            THEN front ELSE Append(front, last)

InfoTypeDictsDedup(items) ==
    [k \in 1..Len(Dedup(items)) |-> [name |-> Dedup(items)[k]]]

\* [{"name": info_type} for info_type in info_types]
InfoTypeDicts(items) == [k \in 1..Len(items) |-> [name |-> items[k]]]

\* The lines the loop body prints for one finding.
FindingLines(finding, quoteFlag) ==
    <<"Info type: " \o finding.info_type.name>>
    \o (IF Truthy(quoteFlag) THEN <<"Quote: " \o finding.quote>> ELSE <<>>)
    \o <<"Likelihood: " \o finding.likelihood \o " ", "">>

(* ---------------------------- actions ---------------------------------- *)

\* parser.parse_args() and the call of the function.
ParseArgs ==
    /\ pc = "main"
    /\ IF \/ argv.filename.kind = "none"
          \/ (argv.info_types.kind = "list" /\ argv.info_types.items = <<>>)
       THEN /\ Raise("UsageError")
            /\ UNCHANGED <<project, filename, info_types, include_quote>>
       ELSE /\ pc' = "client"
            /\ project' = argv.project
            /\ filename' = argv.filename
            /\ info_types' = argv.info_types
            /\ include_quote' = IF argv.include_quote.kind = "none"
                                THEN PyBool(TRUE) ELSE argv.include_quote
            /\ err' = err
    /\ UNCHANGED <<argv, inspect_config, byte_item, parent, sent, response,
                   idx, stdout>>

\* dlp = google.cloud.dlp_v2.DlpServiceClient()
InstantiateClient ==
    /\ pc = "client"
    /\ pc' = "prepare"
    /\ UNCHANGED <<argv, project, filename, info_types, include_quote,
                   inspect_config, byte_item, parent, sent, response, idx,
                   stdout, err>>

\* info_types = [...]; inspect_config = {...}
PrepareInfoTypes ==
    /\ pc = "prepare"
    /\ IF info_types.kind = "none"
       THEN /\ Raise("TypeError")
            /\ UNCHANGED inspect_config
       ELSE /\ inspect_config' =
                   [info_types |-> InfoTypeDicts(info_types.items),
                    include_quote |-> include_quote]
            /\ pc' = "read"
            /\ err' = err
    /\ UNCHANGED <<argv, project, filename, info_types, include_quote,
                   byte_item, parent, sent, response, idx, stdout>>

\* Variant: a failed read is swallowed and the request carries no data.
ReadFileSwallowError ==
    /\ pc = "read"
    /\ byte_item' = [type_ |-> "IMAGE",
                     data |-> IF filename.s \in ExistingFiles
                              THEN FileData(filename.s) ELSE <<>>]
    /\ pc' = "parent"
    /\ UNCHANGED <<argv, project, filename, info_types, include_quote,
                   inspect_config, parent, sent, response, idx, stdout, err>>

\* with open(filename, mode="rb") as f: byte_item = {...}
ReadFile ==
    /\ pc = "read"
    /\ IF filename.s \in ExistingFiles
       THEN /\ byte_item' = [type_ |-> "IMAGE", data |-> FileData(filename.s)]
            /\ pc' = "parent"
            /\ err' = err
       ELSE /\ Raise("FileReadError")
            /\ UNCHANGED byte_item
    /\ UNCHANGED <<argv, project, filename, info_types, include_quote,
                   inspect_config, parent, sent, response, idx, stdout>>

\* parent = f"projects/{project}"
BuildParent ==
    /\ pc = "parent"
    /\ parent' = "projects/" \o PyFormat(project)
    /\ pc' = "call"
    /\ UNCHANGED <<argv, project, filename, info_types, include_quote,
                   inspect_config, byte_item, sent, response, idx, stdout, err>>

\* Variant: a failed call is recorded and the presenter runs on an empty
\* result.
CallApiContinueOnError ==
    /\ pc = "call"
    /\ sent' = Append(sent, [parent |-> parent,
                             inspect_config |-> inspect_config,
                             item |-> [byte_item |-> byte_item]])
    /\ \/ /\ err' = "RemoteCallError"
          /\ pc' = "present"
          /\ UNCHANGED response
       \/ /\ \E fs \in SeqsUpTo(Findings, MaxFindings) :
                 response' = [received |-> TRUE, findings |-> fs]
          /\ pc' = "present"
          /\ err' = err
    /\ UNCHANGED <<argv, project, filename, info_types, include_quote,
                   inspect_config, byte_item, parent, idx, stdout>>

\* Variant: a failed call is retried once before the error is raised.
CallApiRetryOnce ==
    /\ pc = "call"
    /\ sent' = Append(sent, [parent |-> parent,
                             inspect_config |-> inspect_config,
                             item |-> [byte_item |-> byte_item]])
    /\ \/ /\ IF sent = <<>>
             THEN pc' = "call" /\ err' = err
             ELSE Raise("RemoteCallError")
          /\ UNCHANGED response
       \/ /\ \E fs \in SeqsUpTo(Findings, MaxFindings) :
                 response' = [received |-> TRUE, findings |-> fs]
          /\ pc' = "present"
          /\ err' = err
    /\ UNCHANGED <<argv, project, filename, info_types, include_quote,
                   inspect_config, byte_item, parent, idx, stdout>>

\* response = dlp.inspect_content(request={...}): the service answers with
\* findings or the call raises.
CallApi ==
    /\ pc = "call"
    /\ sent' = Append(sent, [parent |-> parent,
                             inspect_config |-> inspect_config,
                             item |-> [byte_item |-> byte_item]])
    /\ \/ /\ Raise("RemoteCallError")
          /\ UNCHANGED response
       \/ /\ \E fs \in SeqsUpTo(Findings, MaxFindings) :
                 response' = [received |-> TRUE, findings |-> fs]
          /\ pc' = "present"
          /\ err' = err
    /\ UNCHANGED <<argv, project, filename, info_types, include_quote,
                   inspect_config, byte_item, parent, idx, stdout>>

\* Variant: the else branch is missing, an empty result prints nothing.
PresentWithoutElse ==
    /\ pc = "present"
    /\ IF response.findings # <<>>
       THEN pc' = "loop" /\ idx' = 1
       ELSE pc' = "done" /\ UNCHANGED idx
    /\ UNCHANGED <<argv, project, filename, info_types, include_quote,
                   inspect_config, byte_item, parent, sent, response, stdout,
                   err>>

\* if response.result.findings: ... else: print("No findings.")
Present ==
    /\ pc = "present"
    /\ IF response.findings # <<>>
       THEN /\ pc' = "loop"
            /\ idx' = 1
            /\ UNCHANGED stdout
       ELSE /\ stdout' = print(stdout, <<"No findings.">>)
            /\ pc' = "done"
            /\ UNCHANGED idx
    /\ UNCHANGED <<argv, project, filename, info_types, include_quote,
                   inspect_config, byte_item, parent, sent, response, err>>

\* Variant: the findings are walked from the last to the first.
PrintFindingReversed ==
    /\ pc = "loop"
    /\ idx <= Len(response.findings)
    /\ stdout' = print(stdout,
                       FindingLines(
                           response.findings[Len(response.findings) + 1 - idx],
                           include_quote))
    /\ idx' = idx + 1
    /\ pc' = IF idx = Len(response.findings) THEN "done" ELSE "loop"
    /\ UNCHANGED <<argv, project, filename, info_types, include_quote,
                   inspect_config, byte_item, parent, sent, response, err>>

\* One iteration of `for finding in response.result.findings`.
PrintFinding ==
    /\ pc = "loop"
    /\ idx <= Len(response.findings)
    /\ stdout' = print(stdout,
                       FindingLines(response.findings[idx], include_quote))
    /\ idx' = idx + 1
    /\ pc' = IF idx = Len(response.findings) THEN "done" ELSE "loop"
    /\ UNCHANGED <<argv, project, filename, info_types, include_quote,
                   inspect_config, byte_item, parent, sent, response, err>>

Next ==
    \/ ParseArgs
    \/ InstantiateClient
    \/ PrepareInfoTypes
    \/ ReadFile
    \/ BuildParent
    \/ CallApi
    \/ Present
    \/ PrintFinding

Spec == Init /\ [][Next]_vars

(* ------------------------ reading the output --------------------------- *)

StartsWith(s, p) == Len(s) >= Len(p) /\ SubSeq(s, 1, Len(p)) = p
IsInfoTypeLine(l) == StartsWith(l, "Info type: ")
IsQuoteLine(l) == StartsWith(l, "Quote: ")
IsLikelihoodLine(l) == StartsWith(l, "Likelihood: ")
IsKeyLine(l) == IsInfoTypeLine(l) \/ IsLikelihoodLine(l)

\* Positions of the function after the statement named.
AfterPrepare == {"read", "parent", "call", "present", "loop", "done"}
AfterRead == {"parent", "call", "present", "loop", "done"}
AfterCall == {"present", "loop", "done"}

\* Findings whose loop iteration has run.
Printed ==
    IF pc = "done" THEN Len(response.findings)
    ELSE IF pc = "loop" THEN idx - 1 ELSE 0

FileMissing == filename.kind = "str" /\ filename.s \notin ExistingFiles

(* ------------------------------ claims ---------------------------------- *)

\* C1: when reading the file fails the run ends with FileReadError, the
\* remote inspect call is never invoked and nothing is printed; no run with
\* an unreadable file gets past the read.
C1_NoRemoteCallOnFileReadFailure ==
    /\ FileMissing => (pc \notin AfterRead /\ sent = <<>> /\ stdout = <<>>)
    /\ err = "FileReadError" =>
           (pc = "exit" /\ FileMissing /\ sent = <<>> /\ stdout = <<>>)

C1_Witness ==
    /\ pc = "exit"
    /\ err = "FileReadError"
    /\ filename = PyStr("missing.png")
    /\ inspect_config # NoConfig

\* C2: for a non-empty result the output holds, per finding printed, exactly
\* one "Info type" line and one "Likelihood" line, in the order received.
C2_OneInfoTypeAndLikelihoodLinePerFindingInOrder ==
    (response.received /\ response.findings # <<>>) =>
        LET key == SelectSeq(stdout, IsKeyLine)
            fs == response.findings
        IN /\ Len(key) = 2 * Printed
           /\ \A k \in 1..Printed :
                 /\ key[2 * k - 1] = "Info type: " \o fs[k].info_type.name
                 /\ IsLikelihoodLine(key[2 * k])
                 /\ StartsWith(key[2 * k], "Likelihood: " \o fs[k].likelihood)

C2_Witness ==
    /\ pc = "done"
    /\ Len(response.findings) = 2
    /\ response.findings[1].info_type.name = "PHONE_NUMBER"
    /\ response.findings[2].info_type.name = "EMAIL_ADDRESS"
    /\ Len(SelectSeq(stdout, IsInfoTypeLine)) = 2

\* C3: when include_quote is false (False, or the empty text the command
\* line can pass) no "Quote:" line is written, whatever quotes the findings
\* carry.
C3_NoQuoteLineWhenIncludeQuoteFalse ==
    include_quote \in {PyBool(FALSE), PyStr("")} =>
        \A k \in 1..Len(stdout) : ~IsQuoteLine(stdout[k])

C3_Witness ==
    /\ pc = "done"
    /\ include_quote = PyBool(FALSE)
    /\ response.findings # <<>>
    /\ \A k \in 1..Len(response.findings) : response.findings[k].quote # ""

\* C4: when the result has no findings the output is exactly the one line
\* "No findings.", whatever include_quote is.
C4_EmptyResultPrintsNoFindingsOnly ==
    (response.received /\ response.findings = <<>>) =>
        /\ pc \in {"present", "done"}
        /\ pc = "present" => stdout = <<>>
        /\ pc = "done" => stdout = <<"No findings.">>

C4_Witness ==
    /\ pc = "done"
    /\ response.received
    /\ response.findings = <<>>
    /\ Truthy(include_quote)

\* C5: a failed remote call ends the run with RemoteCallError and no output;
\* output is written only after a full result has been obtained.
C5_RemoteFailureEmitsNoOutput ==
    /\ err = "RemoteCallError" =>
           (pc = "exit" /\ stdout = <<>> /\ ~response.received)
    /\ stdout # <<>> => (response.received /\ err = "")
    /\ (sent # <<>> /\ ~response.received) =>
           (pc = "exit" /\ err = "RemoteCallError")

C5_Witness ==
    /\ pc = "exit"
    /\ err = "RemoteCallError"
    /\ Len(sent) = 1

\* C6 (as claimed): with include_quote true a Quote line is written for a
\* finding only if the finding carries a quote.
C6_QuoteLineOnlyForFindingsWithQuote ==
    (pc = "done" /\ Truthy(include_quote) /\ response.findings # <<>>) =>
        Len(SelectSeq(stdout, IsQuoteLine)) =
            Cardinality({k \in 1..Len(response.findings) :
                            response.findings[k].quote # ""})

\* C7 (as claimed): with include_quote true and a quote present, each finding
\* is written as exactly the four lines Info type / Quote / Likelihood / empty.
C7_ExactFourLineBlock ==
    (/\ pc = "done"
     /\ Truthy(include_quote)
     /\ response.findings # <<>>
     /\ \A k \in 1..Len(response.findings) : response.findings[k].quote # "")
    => /\ Len(stdout) = 4 * Len(response.findings)
       /\ \A k \in 1..Len(response.findings) :
             SubSeq(stdout, 4 * k - 3, 4 * k) =
                 <<"Info type: " \o response.findings[k].info_type.name,
                   "Quote: " \o response.findings[k].quote,
                   "Likelihood: " \o response.findings[k].likelihood,
                   "">>

\* C8 (as claimed): a command line without --project or without --info_types,
\* otherwise valid, reaches the remote call; if it fails, it fails there.
C8_MissingOptionsReachRemoteCall ==
    (/\ argv.cli
     /\ argv.project = PyNone \/ argv.info_types = PyNoneList
     /\ argv.info_types # PyList(<<>>)
     /\ argv.filename.kind = "str"
     /\ argv.filename.s \in ExistingFiles
     /\ pc = "exit")
    => (err = "RemoteCallError" /\ Len(sent) = 1)

\* C9: the request's info type list has the length of the input list and its
\* i-th entry is named by the i-th input label (no reordering, no dedup).
C9_InfoTypesMappedOneToOne ==
    LET matches(dicts) ==
            /\ Len(dicts) = Len(info_types.items)
            /\ \A k \in 1..Len(dicts) : dicts[k].name = info_types.items[k]
    IN /\ (pc \in AfterPrepare \/ err \in {"FileReadError", "RemoteCallError"})
            => matches(inspect_config.info_types)
       /\ \A r \in 1..Len(sent) : matches(sent[r].inspect_config.info_types)

C9_Witness ==
    /\ Len(sent) = 1
    /\ info_types.items = <<"EMAIL_ADDRESS", "EMAIL_ADDRESS">>
    /\ Len(sent[1].inspect_config.info_types) = 2

\* C10: the remote call is invoked at most once in a run: exactly once in a
\* run that completes, and a failed call ends the run without another call.
C10_AtMostOneRemoteCall ==
    /\ Len(sent) <= 1
    /\ pc \in AfterCall => Len(sent) = 1
    /\ err = "RemoteCallError" => (pc = "exit" /\ Len(sent) = 1)
    /\ pc = "call" => sent = <<>>

C10_Witness ==
    /\ pc = "done"
    /\ Len(sent) = 1
    /\ stdout # <<>>
====
